---- MODULE Spec2Model ----
(***************************************************************************)
(* Model of Labs/Lab_04/pokemon_lab/update_portfolio.py: the price lookup  *)
(* loader, the inventory loader and the merge/valuation step, with the     *)
(* pandas operations they call modelled by what pandas 2.x computes; and   *)
(* of generate_summary.py and pipeline.py, which run after it.             *)
(*                                                                         *)
(* A table cell holding text is a record [k, t]: k is the kind of value    *)
(* ("str", "int", "float", "nan" for NaN/None, "NA" for pd.NA) and t the   *)
(* text it was read from.  Prices are naturals (price units); NaNf is the  *)
(* float NaN and AbsentKey a JSON key that is not there.                   *)
(***************************************************************************)
EXTENDS Integers, Sequences, FiniteSets, TLC

VARIABLES
    lookup_dir,      \* the *.json documents of lookup_dir, in sorted path order
    inventory_dir,   \* the *.csv files of inventory_dir, in sorted path order
    pc,              \* position of the run
    path_i,          \* index of the next path of the loop in progress
    all_lookup_df,   \* _load_lookup_data: the per-document frames
    lookup_df,       \* the table _load_lookup_data returned
    frames,          \* _load_inventory_data: the per-file frames
    inventory_df,    \* the table _load_inventory_data returned
    output_file,     \* the CSV written by update_portfolio, or NotWritten
    stderr,          \* diagnostics, in order
    raised,          \* the exception that left the run, or "none"
    stdout           \* the lines printed to standard output, in order

vars == <<lookup_dir, inventory_dir, pc, path_i, all_lookup_df, lookup_df,
          frames, inventory_df, output_file, stderr, raised, stdout>>

-----------------------------------------------------------------------------
(* Bounds of the inputs *)

MaxDocs == 2        \* lookup documents of a directory
MaxRecords == 2     \* records held by the documents of a directory, in all
MaxFiles == 2       \* inventory files of a directory
MaxRows == 2        \* rows held by the files of a directory, in all

-----------------------------------------------------------------------------
(* Values *)

Str(s) == [k |-> "str", t |-> s]
NaN == [k |-> "nan", t |-> ""]
NA == [k |-> "NA", t |-> ""]
NaNf == 0 - 1
AbsentKey == 0 - 2
AbsentS == "<absent>"

NotWritten == [written |-> FALSE, header |-> <<>>, rows |-> <<>>]

\* a line of standard output: its fixed text and the values formatted into it
Printed(text, args) == [text |-> text, args |-> args]

IsNull(cell) == cell.k \in {"nan", "NA"}

\* RECURSIVE helpers over sequences
RECURSIVE Flatten(_)
Flatten(ss) == IF ss = <<>> THEN <<>> ELSE Head(ss) \o Flatten(Tail(ss))

RECURSIVE SumLen(_)
SumLen(ss) == IF ss = <<>> THEN 0 ELSE Len(Head(ss)) + SumLen(Tail(ss))

Range(s) == {s[i] : i \in 1..Len(s)}

-----------------------------------------------------------------------------
(* _load_lookup_data *)

\* A JSON record is a TLA+ record whose fields stand for the flattened keys:
\* id, name, number, set_dot_id ("set.id"), set_dot_name ("set.name"),
\* holofoil_market ("tcgplayer.prices.holofoil.market") and normal_market
\* ("tcgplayer.prices.normal.market").
holo_col == "holofoil_market"
norm_col == "normal_market"

required_cols == <<"card_id", "card_name", "card_number", "set_id", "set_name",
                   "card_market_value">>

\* The empty, correctly-shaped frame of lines 40-49 and 100-109.
EmptyLookup == <<>>

\* json.load: does it raise on this document?
JsonLoadFails(doc) == doc.kind = "unparseable"

\* `"data" not in data` raises TypeError on a JSON scalar (null, number, bool).
DataTestRaises(doc) == doc.kind = "scalar"

\* `"data" not in data or not isinstance(data["data"], list)`
NoDataArray(doc) == doc.kind \in {"no_data", "data_not_list"}

\* pd.json_normalize: the columns are the keys some record has; a record
\* without a key gets NaN there.
JsonNormalizeCols(data) ==
    {c \in {"id", "name", "number", "set_dot_id", "set_dot_name"} :
        \E i \in 1..Len(data) : data[i][c] # AbsentS}
    \cup {c \in {holo_col, norm_col} :
        \E i \in 1..Len(data) : data[i][c] # AbsentKey}

TextCell(s) == IF s = AbsentS THEN NaN ELSE Str(s)
PriceCell(p) == IF p = AbsentKey THEN NaNf ELSE p

\* df.get(holo_col).fillna(df.get(norm_col)).fillna(0.0).astype(float), per row
FillnaMarket(holo, norm) ==
    IF holo # NaNf THEN holo ELSE IF norm # NaNf THEN norm ELSE 0

\* df.get(col) is None when the column is missing: None.fillna raises
\* AttributeError, and .fillna(None) raises ValueError.
MarketValueRaises(data) ==
    IF holo_col \notin JsonNormalizeCols(data) THEN "AttributeError"
    ELSE IF norm_col \notin JsonNormalizeCols(data) THEN "ValueError"
    ELSE "none"

\* rename(columns=rename_map) and reindex(columns=required_cols) of one record
LookupRow(r) ==
    [card_id |-> TextCell(r.id),
     card_name |-> TextCell(r.name),
     card_number |-> TextCell(r.number),
     set_id |-> TextCell(r.set_dot_id),
     set_name |-> TextCell(r.set_dot_name),
     card_market_value |-> FillnaMarket(PriceCell(r[holo_col]), PriceCell(r[norm_col]))]

DfSubset(data) == [i \in 1..Len(data) |-> LookupRow(data[i])]

\* sort_values("card_market_value", ascending=False): rows of equal value
\* keep their order.
RECURSIVE InsertDesc(_, _)
InsertDesc(row, sorted) ==
    IF sorted = <<>> THEN <<row>>
    ELSE IF Head(sorted).card_market_value >= row.card_market_value
         THEN <<Head(sorted)>> \o InsertDesc(row, Tail(sorted))
         ELSE <<row>> \o sorted

RECURSIVE SortValuesDescFrom(_, _)
SortValuesDescFrom(rows, acc) ==
    IF rows = <<>> THEN acc
    ELSE SortValuesDescFrom(Tail(rows), InsertDesc(Head(rows), acc))

\* the table left in its order
SortValuesSkipped(rows) == rows

SortValuesDesc(rows) == SortValuesDescFrom(rows, <<>>)

\* drop_duplicates(subset=["card_id"], keep="first")
DropDuplicates(rows) ==
    SelectSeq([i \in 1..Len(rows) |-> [row |-> rows[i], first |->
                  \A j \in 1..(i - 1) : rows[j].card_id # rows[i].card_id]],
              LAMBDA e : e.first)

KeptRows(rows) == [i \in 1..Len(DropDuplicates(rows)) |-> DropDuplicates(rows)[i].row]

\* Series.astype(str) of an object column: NaN becomes the text "nan",
\* pd.NA the text "<NA>".
AstypeStr(cell) ==
    IF cell.k = "nan" THEN Str("nan")
    ELSE IF cell.k = "NA" THEN Str("<NA>")
    ELSE IF cell.k = "float" THEN Str(cell.t \o ".0")
    ELSE Str(cell.t)

TidyTypes(row) ==
    [card_id |-> AstypeStr(row.card_id),
     card_name |-> AstypeStr(row.card_name),
     card_number |-> AstypeStr(row.card_number),
     set_id |-> AstypeStr(row.set_id),
     set_name |-> AstypeStr(row.set_name),
     card_market_value |-> row.card_market_value]

\* lines 111-122
ConcatSortDedup(dfs) ==
    LET kept == KeptRows(SortValuesDesc(Flatten(dfs)))
    IN  [i \in 1..Len(kept) |-> TidyTypes(kept[i])]

LookupNoFiles ==
    /\ pc = "lookup_loop"
    /\ lookup_dir = <<>>
    /\ lookup_df' = EmptyLookup
    /\ pc' = "inventory_loop"
    /\ path_i' = 1
    /\ UNCHANGED <<lookup_dir, inventory_dir, all_lookup_df, frames, inventory_df,
                   output_file, stderr, raised, stdout>>

LookupReadDoc ==
    /\ pc = "lookup_loop"
    /\ path_i <= Len(lookup_dir)
    /\ LET doc == lookup_dir[path_i] IN
        IF JsonLoadFails(doc)
        THEN /\ stderr' = Append(stderr, "[lookup] Warning: failed to read")
             /\ path_i' = path_i + 1
             /\ UNCHANGED <<pc, all_lookup_df, raised>>
        ELSE IF DataTestRaises(doc)
        THEN /\ raised' = "TypeError"
             /\ pc' = "raised"
             /\ UNCHANGED <<path_i, all_lookup_df, stderr>>
        ELSE IF NoDataArray(doc)
        THEN /\ stderr' = Append(stderr, "[lookup] Warning: no 'data' array")
             /\ path_i' = path_i + 1
             /\ UNCHANGED <<pc, all_lookup_df, raised>>
        ELSE IF MarketValueRaises(doc.data) # "none"
        THEN /\ raised' = MarketValueRaises(doc.data)
             /\ pc' = "raised"
             /\ UNCHANGED <<path_i, all_lookup_df, stderr>>
        ELSE /\ all_lookup_df' = Append(all_lookup_df, DfSubset(doc.data))
             /\ path_i' = path_i + 1
             /\ UNCHANGED <<pc, stderr, raised>>
    /\ UNCHANGED <<lookup_dir, inventory_dir, lookup_df, frames, inventory_df,
                   output_file, stdout>>

LookupReturn ==
    /\ pc = "lookup_loop"
    /\ lookup_dir # <<>>
    /\ path_i > Len(lookup_dir)
    /\ lookup_df' = IF all_lookup_df = <<>> THEN EmptyLookup
                    ELSE ConcatSortDedup(all_lookup_df)
    /\ pc' = "inventory_loop"
    /\ path_i' = 1
    /\ UNCHANGED <<lookup_dir, inventory_dir, all_lookup_df, frames, inventory_df,
                   output_file, stderr, raised, stdout>>

-----------------------------------------------------------------------------
(* Inputs of the lookup loader *)

\* pp is <<holofoil market, normal market>>
CardOf(id, name, pp) ==
    [id |-> id, name |-> name,
     number |-> IF id = "SV1-TG01" THEN "TG01" ELSE "001",
     set_dot_id |-> "SV1", set_dot_name |-> "Scarlet",
     holofoil_market |-> pp[1], normal_market |-> pp[2]]

JsonRecords ==
    {CardOf("SV1-001", "Pikachu", pp) : pp \in {<<AbsentKey, 2>>, <<NaNf, 7>>, <<5, 2>>}}
    \cup {CardOf("SV1-TG01", "Eevee", pp) :
             pp \in {<<AbsentKey, AbsentKey>>, <<5, AbsentKey>>, <<NaNf, 7>>}}
    \cup {CardOf(AbsentS, AbsentS, <<NaNf, 2>>)}

OkDoc(data) == [kind |-> "ok", data |-> data]
BadDoc(kind) == [kind |-> kind, data |-> <<>>]
BadDocs == {BadDoc(k) : k \in {"unparseable", "scalar", "no_data", "data_not_list"}}

\* LookupDirs[nd, nr]: the directories of at most nd documents holding at most
\* nr records in all.
LookupDirs[nd \in 0..MaxDocs, nr \in 0..MaxRecords] ==
    IF nd = 0 THEN {<<>>}
    ELSE {<<>>}
         \cup {<<d>> \o rest : d \in BadDocs, rest \in LookupDirs[nd - 1, nr]}
         \cup UNION {{<<OkDoc(data)>> \o rest :
                        data \in [1..m -> JsonRecords],
                        rest \in LookupDirs[nd - 1, nr - m]} : m \in 0..nr}

-----------------------------------------------------------------------------
(* _load_inventory_data *)

\* A CSV file is [kind, cols, rows]: kind "unreadable" makes pd.read_csv
\* raise (a zero-byte file raises EmptyDataError); rows map each column of
\* the header to the text of the cell, "" for an empty cell.

\* Texts pd.read_csv parses as integers, with the integer and its repr.
IntTexts == {"001", "1", "2", "3", "7"}
IntOf(t) == CASE t \in {"001", "1"} -> 1 [] t = "2" -> 2 [] t = "3" -> 3 [] t = "7" -> 7
ReprOf(t) == IF t = "001" THEN "1" ELSE t

\* str.strip() over the texts the inputs hold
Strip(t) == IF t = "A " THEN "A" ELSE t

\* dtype pd.read_csv infers for column c of a file with rows
ReadCsvKind(file, c) ==
    LET texts == {file.rows[i][c] : i \in 1..Len(file.rows)} IN
    IF texts \subseteq IntTexts THEN "int"
    ELSE IF texts \subseteq IntTexts \cup {""} THEN "float"
    ELSE "object"

ReadCsvCell(file, c, text) ==
    IF text = "" THEN NaN
    ELSE IF ReadCsvKind(file, c) = "object" THEN Str(text)
    ELSE [k |-> ReadCsvKind(file, c), t |-> ReprOf(text)]

\* pd.read_csv(path)
ReadCsv(file) ==
    [cols |-> file.cols,
     rows |-> [i \in 1..Len(file.rows) |->
                 [c \in file.cols |-> ReadCsvCell(file, c, file.rows[i][c])]]]

\* The kinds of the cells column c gets in pd.concat(frames): a frame
\* without the column gives NaN to each of its rows.
ConcatKinds(fs, c) ==
    UNION {{IF c \notin fs[i].cols THEN "nan" ELSE fs[i].rows[j][c].k :
              j \in 1..Len(fs[i].rows)} : i \in 1..Len(fs)}

\* The column is object if a cell holds text; else float64 if a cell is NaN
\* or a float, and its integers become floats; else int64.
ConcatCell(fs, c, f, row) ==
    IF c \notin f.cols THEN NaN
    ELSE IF /\ row[c].k = "int"
            /\ "str" \notin ConcatKinds(fs, c)
            /\ ({"nan", "float"} \cap ConcatKinds(fs, c)) # {}
         THEN [k |-> "float", t |-> row[c].t]
         ELSE row[c]

\* pd.concat(frames, ignore_index=True)
Concat(fs) ==
    LET cols == UNION {fs[i].cols : i \in 1..Len(fs)} IN
    [cols |-> cols,
     rows |-> Flatten([i \in 1..Len(fs) |->
                 [j \in 1..Len(fs[i].rows) |->
                    [c \in cols |-> ConcatCell(fs, c, fs[i], fs[i].rows[j])]]])]

EmptyFrame == [cols |-> {}, rows |-> <<>>]

\* The header line of a file: its columns, written in this order.
CsvColumnOrder == <<"card_id", "set_id", "card_number", "card_name", "quantity",
                    "binder_name", "page_number", "slot_number">>

\* df.columns of pd.read_csv(path): the order of the header line
ReadCsvColumns(df) == SelectSeq(CsvColumnOrder, LAMBDA c : c \in df.cols)

\* `if c not in df.columns: df[c] = ...` for each c of more: a new column
\* goes to the end
AppendMissing(columns, more) ==
    columns \o SelectSeq(more, LAMBDA c : c \notin Range(columns))

\* columns of pd.concat(frames): the union, in order of first appearance
RECURSIVE ConcatColumns(_)
ConcatColumns(fs) ==
    IF fs = <<>> THEN <<>>
    ELSE AppendMissing(ReadCsvColumns(Head(fs)), ConcatColumns(Tail(fs)))

\* inventory_df.columns on return: lines 168 and 171-180 add at the end
InventoryColumns(fs) ==
    AppendMissing(AppendMissing(ConcatColumns(fs), <<"card_id">>),
                  <<"quantity", "binder_name", "page_number", "slot_number">>)

\* set_id.astype(str).str.strip() + "-" + card_number.astype(str).str.strip()
SynthCardId(row) ==
    Str(Strip(AstypeStr(row["set_id"]).t) \o "-" \o Strip(AstypeStr(row["card_number"]).t))

\* lines 155-168, when the key can be built
BuildCardId(df) ==
    IF "card_id" \in df.cols THEN df
    ELSE [cols |-> df.cols \cup {"card_id"},
          rows |-> [i \in 1..Len(df.rows) |->
                      [c \in df.cols \cup {"card_id"} |->
                         IF c = "card_id" THEN SynthCardId(df.rows[i])
                         ELSE df.rows[i][c]]]]

DefaultCell(c) ==
    IF c = "quantity" THEN [k |-> "int", t |-> "1"]
    ELSE IF c = "binder_name" THEN Str("Binder")
    ELSE Str("")

\* inventory_df[c] = default, when the column is missing
WithDefault(df, c) ==
    IF c \in df.cols THEN df
    ELSE [cols |-> df.cols \cup {c},
          rows |-> [i \in 1..Len(df.rows) |->
                      [d \in df.cols \cup {c} |->
                         IF d = c THEN DefaultCell(c) ELSE df.rows[i][d]]]]

\* lines 170-180
EnsureDefaults(df) ==
    WithDefault(WithDefault(WithDefault(WithDefault(df, "quantity"),
        "binder_name"), "page_number"), "slot_number")

\* lines 183-184
CastKeys(df) ==
    [cols |-> df.cols,
     rows |-> [i \in 1..Len(df.rows) |->
                 [c \in df.cols |->
                    IF c \in {"card_id", "binder_name", "page_number", "slot_number"}
                    THEN AstypeStr(df.rows[i][c]) ELSE df.rows[i][c]]]]

\* the columns of the pair set_id, card_number the frame lacks (line 156)
MissingKeyCols(df) == {"set_id", "card_number"} \ df.cols

InventoryNoFiles ==
    /\ pc = "inventory_loop"
    /\ inventory_dir = <<>>
    /\ inventory_df' = EmptyFrame
    /\ pc' = "merge"
    /\ UNCHANGED <<lookup_dir, inventory_dir, path_i, all_lookup_df, lookup_df,
                   frames, output_file, stderr, raised, stdout>>

InventoryReadFile ==
    /\ pc = "inventory_loop"
    /\ path_i <= Len(inventory_dir)
    /\ LET file == inventory_dir[path_i] IN
        IF file.kind = "unreadable"
        THEN /\ stderr' = Append(stderr, "[inventory] Warning: failed to read")
             /\ UNCHANGED frames
        ELSE /\ frames' = Append(frames, ReadCsv(file))
             /\ UNCHANGED stderr
    /\ path_i' = path_i + 1
    /\ UNCHANGED <<lookup_dir, inventory_dir, pc, all_lookup_df, lookup_df,
                   inventory_df, output_file, raised, stdout>>

InventoryReturn ==
    /\ pc = "inventory_loop"
    /\ inventory_dir # <<>>
    /\ path_i > Len(inventory_dir)
    /\ IF frames = <<>>
       THEN /\ inventory_df' = EmptyFrame
            /\ UNCHANGED stderr
       ELSE IF "card_id" \notin Concat(frames).cols /\ MissingKeyCols(Concat(frames)) # {}
       THEN /\ inventory_df' = EmptyFrame
            /\ stderr' = Append(stderr, "[inventory] Error: inventory CSVs must contain 'card_id' OR both 'set_id' and 'card_number'.")
       ELSE /\ inventory_df' = CastKeys(EnsureDefaults(BuildCardId(Concat(frames))))
            /\ UNCHANGED stderr
    /\ pc' = "merge"
    /\ UNCHANGED <<lookup_dir, inventory_dir, path_i, all_lookup_df, lookup_df,
                   frames, output_file, raised, stdout>>

-----------------------------------------------------------------------------
(* update_portfolio *)

final_cols == <<"index", "card_id", "card_name", "card_number", "set_id", "set_name",
                "quantity", "card_market_value", "portfolio_line_value">>

keep_lookup_cols == {"card_id", "card_name", "card_number", "set_id", "set_name",
                     "card_market_value"}

expected_cols == {"card_name", "card_number", "set_id", "set_name", "card_market_value"}

\* inventory_df.empty
IsEmpty(df) == df.cols = {} \/ df.rows = <<>>

\* pd.merge renames the columns both sides have, the key apart: the left
\* one gets the suffix _x, the right one _y.
Overlap(inv) == inv.cols \cap (keep_lookup_cols \ {"card_id"})
LeftName(inv, c) == IF c \in Overlap(inv) THEN c \o "_x" ELSE c
RightName(inv, c) == IF c \in Overlap(inv) THEN c \o "_y" ELSE c
LeftNames(inv) == {LeftName(inv, c) : c \in inv.cols}
RightNames(inv) == {RightName(inv, c) : c \in keep_lookup_cols \ {"card_id"}}

\* the lookup side of a row without a match
NoMatch ==
    [card_id |-> NaN, card_name |-> NaN, card_number |-> NaN, set_id |-> NaN,
     set_name |-> NaN, card_market_value |-> NaNf]

MergedRow(inv, left, right) ==
    [n \in LeftNames(inv) \cup RightNames(inv) |->
        IF n \in LeftNames(inv)
        THEN left[CHOOSE c \in inv.cols : LeftName(inv, c) = n]
        ELSE right[CHOOSE c \in keep_lookup_cols : RightName(inv, c) = n]]

Matches(lk, id) == SelectSeq(lk, LAMBDA r : r.card_id = id)

\* the merged rows of one inventory row: one per lookup row of its card_id,
\* or one with a null lookup side
LeftJoinRow(inv, lk, left) ==
    IF Matches(lk, left["card_id"]) = <<>> THEN <<MergedRow(inv, left, NoMatch)>>
    ELSE [j \in 1..Len(Matches(lk, left["card_id"])) |->
            MergedRow(inv, left, Matches(lk, left["card_id"])[j])]

\* pd.merge(inventory_df, lookup_df, on="card_id", how="left")
PdMerge(inv, lk) ==
    [cols |-> LeftNames(inv) \cup RightNames(inv),
     rows |-> Flatten([i \in 1..Len(inv.rows) |-> LeftJoinRow(inv, lk, inv.rows[i])])]

\* lines 238-240: merged[c] = pd.NA for the expected columns it lacks
EnsureExpected(m) ==
    [cols |-> m.cols \cup expected_cols,
     rows |-> [i \in 1..Len(m.rows) |->
                 [c \in m.cols \cup expected_cols |->
                    IF c \in m.cols THEN m.rows[i][c] ELSE NA]]]

\* Series.fillna(value)
Fillna(cell, value) == IF IsNull(cell) THEN value ELSE cell

\* line 243: astype(float).fillna(0.0)
MarketValueClean(v) == IF v = NaNf THEN 0 ELSE v

\* line 244: astype(str).fillna("NOT_FOUND").replace({"<NA>": "NOT_FOUND"})
SetNameClean(cell) ==
    IF Fillna(AstypeStr(cell), Str("NOT_FOUND")) = Str("<NA>")
    THEN Str("NOT_FOUND")
    ELSE Fillna(AstypeStr(cell), Str("NOT_FOUND"))

\* Series.astype("string"): a null becomes pd.NA, a value its text
AstypeString(cell) == IF IsNull(cell) THEN NA ELSE AstypeStr(cell)

\* lines 247-251: fillna with inventory_df[col].astype(str), aligned on the
\* row index
Backfill(inv, col, i, cell) ==
    IF col \notin inv.cols THEN cell
    ELSE IF i <= Len(inv.rows)
         THEN Fillna(AstypeString(cell), AstypeStr(inv.rows[i][col]))
         ELSE AstypeString(cell)

\* lines 254-260
LocationIndex(row) ==
    Strip(AstypeStr(row["binder_name"]).t) \o "_" \o
    Strip(AstypeStr(row["page_number"]).t) \o "_" \o
    Strip(AstypeStr(row["slot_number"]).t)

\* merged["quantity"].astype(float) raises ValueError on a text that is no
\* number
QuantityRaises(m) ==
    \E i \in 1..Len(m.rows) :
        m.rows[i]["quantity"].k = "str" /\ m.rows[i]["quantity"].t \notin IntTexts

QuantityFloat(cell) == IF IsNull(cell) THEN NaNf ELSE IntOf(cell.t)

\* the product without its quantity factor
LineValueOfOneCard(quantity, value) == IF QuantityFloat(quantity) = NaNf THEN NaNf ELSE value

\* line 263: quantity.astype(float) * card_market_value
LineValue(quantity, value) ==
    IF QuantityFloat(quantity) = NaNf THEN NaNf ELSE QuantityFloat(quantity) * value

\* lines 236-270, one row of the written table
PortfolioRow(inv, i, row) ==
    [index |-> LocationIndex(row),
     card_id |-> row["card_id"],
     card_name |-> Backfill(inv, "card_name", i, row["card_name"]),
     card_number |-> Backfill(inv, "card_number", i, row["card_number"]),
     set_id |-> Backfill(inv, "set_id", i, row["set_id"]),
     set_name |-> SetNameClean(row["set_name"]),
     quantity |-> row["quantity"],
     card_market_value |-> MarketValueClean(row["card_market_value"]),
     portfolio_line_value |->
        LineValue(row["quantity"], MarketValueClean(row["card_market_value"]))]

Merged(inv, lk) == EnsureExpected(PdMerge(inv, lk))

\* keep_lookup_cols and expected_cols, in the order the lists are written
keep_lookup_order == <<"card_id", "card_name", "card_number", "set_id", "set_name",
                       "card_market_value">>
expected_order == <<"card_name", "card_number", "set_id", "set_name", "card_market_value">>

\* columns of pd.merge: the left ones in their order, then the right ones
\* in theirs, the key once
MergeColumns(inv, columns) ==
    [i \in 1..Len(columns) |-> LeftName(inv, columns[i])]
    \o [i \in 1..Len(Tail(keep_lookup_order)) |->
           RightName(inv, Tail(keep_lookup_order)[i])]

\* merged.columns after line 263: lines 238-240, 254 and 263 add at the end
MergedColumns(inv, fs) ==
    AppendMissing(AppendMissing(AppendMissing(
        MergeColumns(inv, InventoryColumns(fs)), expected_order),
        <<"index">>), <<"portfolio_line_value">>)

\* lines 266-268: a final column merged lacks is created
CreateMissingFinal(columns) == AppendMissing(columns, final_cols)

\* the columns left as they are
ColumnsNotSelected(columns) == columns

\* line 270: merged[final_cols]
SelectFinalCols(columns) == SelectSeq(final_cols, LAMBDA c : c \in Range(columns))

\* the header line merged.to_csv(output_file, index=False) writes
ToCsvHeader(inv, fs) == SelectFinalCols(CreateMissingFinal(MergedColumns(inv, fs)))

PortfolioRows(inv, lk) ==
    LET m == Merged(inv, lk) IN
    [i \in 1..Len(m.rows) |-> PortfolioRow(inv, i, m.rows[i])]

UpdatePortfolioEmpty ==
    /\ pc = "merge"
    /\ IsEmpty(inventory_df)
    /\ stderr' = Append(stderr, "[ETL] Error: inventory is empty; writing empty portfolio with headers.")
    /\ output_file' = [written |-> TRUE, header |-> final_cols, rows |-> <<>>]
    /\ pc' = "done"
    /\ UNCHANGED <<lookup_dir, inventory_dir, path_i, all_lookup_df, lookup_df,
                   frames, inventory_df, raised, stdout>>

UpdatePortfolioMerge ==
    /\ pc = "merge"
    /\ ~IsEmpty(inventory_df)
    /\ IF QuantityRaises(Merged(inventory_df, lookup_df))
       THEN /\ raised' = "ValueError"
            /\ pc' = "raised"
            /\ UNCHANGED <<output_file, stdout>>
       ELSE /\ output_file' = [written |-> TRUE,
                               header |-> ToCsvHeader(inventory_df, frames),
                               rows |-> PortfolioRows(inventory_df, lookup_df)]
            /\ stdout' = Append(stdout, Printed("[ETL] Success: wrote",
                                   <<Len(PortfolioRows(inventory_df, lookup_df))>>))
            /\ pc' = "done"
            /\ UNCHANGED raised
    /\ UNCHANGED <<lookup_dir, inventory_dir, path_i, all_lookup_df, lookup_df,
                   frames, inventory_df, stderr>>

-----------------------------------------------------------------------------
(* Inputs of the inventory loader *)

\* the headers the files have
Headers ==
    {{"card_id", "quantity"},
     {"card_id", "card_name", "binder_name", "page_number", "slot_number"},
     {"set_id", "card_number"},
     {"card_name"},
     {"set_id", "quantity"}}

\* the texts the cells of column c hold in a file of header h
CellTexts(h, c) ==
    IF c \notin h THEN {""}
    ELSE CASE c = "card_id" -> {"SV1-001", "XY-9"}
           [] c = "quantity" -> IF "card_id" \in h THEN {"2", ""} ELSE {"3", "x"}
           [] c = "card_number" -> {"001", "TG01"}

\* a row of a file of header h
CsvRow(h, id, quantity, number) ==
    [c \in h |->
        CASE c = "card_id" -> id
          [] c = "quantity" -> quantity
          [] c = "card_number" -> number
          [] c = "card_name" -> "MyPika"
          [] c = "set_id" -> "SV1"
          [] c = "binder_name" -> "A "
          [] c = "page_number" -> "3"
          [] c = "slot_number" -> "7"]

\* the rows a file of header h can hold
RowsOf ==
    [h \in Headers |->
        {CsvRow(h, id, quantity, number) :
            id \in CellTexts(h, "card_id"),
            quantity \in CellTexts(h, "quantity"),
            number \in CellTexts(h, "card_number")}]

CsvFile(h, rows) == [kind |-> "ok", cols |-> h, rows |-> rows]
Unreadable == [kind |-> "unreadable", cols |-> {}, rows |-> <<>>]

\* The directories of at most nf files, with headers of hs, holding at most
\* nr rows in all.
RECURSIVE InventoryDirs(_, _, _)
InventoryDirs(hs, nf, nr) ==
    IF nf = 0 THEN {<<>>}
    ELSE {<<>>}
         \cup {<<Unreadable>> \o rest : rest \in InventoryDirs(hs, nf - 1, nr)}
         \cup UNION {{<<CsvFile(h, rows)>> \o rest :
                        rows \in [1..m -> RowsOf[h]],
                        rest \in InventoryDirs(hs, nf - 1, nr - m)} :
                     h \in hs, m \in 0..nr}

\* the headers of the files the valuation is checked with: a key can be built
ValuationHeaders == {h \in Headers : "card_id" \in h \/ {"set_id", "card_number"} \subseteq h}

\* The lookup directories the whole run is checked with.
PortfolioLookups ==
    {<<>>,
     <<OkDoc(<<CardOf("SV1-001", "Pikachu", <<5, 2>>),
               CardOf("SV1-TG01", "Eevee", <<NaNf, 7>>)>>)>>,
     <<BadDoc("unparseable"), OkDoc(<<CardOf("SV1-001", "Pikachu", <<NaNf, 7>>)>>)>>,
     <<OkDoc(<<>>)>>,
     <<OkDoc(<<CardOf("SV1-TG01", "Eevee", <<AbsentKey, AbsentKey>>)>>)>>}


InitRun ==
    /\ pc = "lookup_loop"
    /\ path_i = 1
    /\ all_lookup_df = <<>>
    /\ lookup_df = <<>>
    /\ frames = <<>>
    /\ inventory_df = EmptyFrame
    /\ output_file = NotWritten
    /\ stderr = <<>>
    /\ raised = "none"
    /\ stdout = <<>>

InitLookup ==
    /\ lookup_dir \in LookupDirs[MaxDocs, MaxRecords]
    /\ inventory_dir = <<>>
    /\ InitRun

NextLookup == LookupNoFiles \/ LookupReadDoc \/ LookupReturn

\* _load_lookup_data alone, over every lookup directory within the bounds
SpecLookup == InitLookup /\ [][NextLookup]_vars

\* The lookup directories the valuation is checked with: none raises.
ValuationLookups ==
    {<<>>,
     <<BadDoc("no_data"),
       OkDoc(<<CardOf("SV1-001", "Pikachu", <<5, 2>>),
               CardOf("SV1-TG01", "Eevee", <<NaNf, 7>>)>>)>>}

InitValuation ==
    /\ lookup_dir \in ValuationLookups
    /\ inventory_dir \in InventoryDirs(ValuationHeaders, MaxFiles, MaxRows)
    /\ InitRun

\* The headers the column order is checked with: each optional column is in
\* one header and missing from another, with either kind of key.
ColumnHeaders ==
    {{"card_id"},
     {"card_id", "card_name", "set_id"},
     {"card_id", "quantity", "page_number"},
     {"set_id", "card_number"},
     {"set_id", "card_number", "binder_name", "slot_number"},
     {"card_id", "set_id", "card_number", "card_name", "quantity",
      "binder_name", "page_number", "slot_number"}}

\* the row a file of header h repeats
ColumnRow(h) == CsvRow(h, "SV1-001", "2", "001")

\* The directories of at most nf readable files, with headers of
\* ColumnHeaders, holding at most nr rows in all.
RECURSIVE ColumnDirs(_, _)
ColumnDirs(nf, nr) ==
    IF nf = 0 THEN {<<>>}
    ELSE {<<>>}
         \cup UNION {{<<CsvFile(h, rows)>> \o rest :
                        rows \in {[i \in 1..m |-> ColumnRow(h)]},
                        rest \in ColumnDirs(nf - 1, nr - m)} :
                     h \in ColumnHeaders, m \in 0..nr}

InitColumns ==
    /\ lookup_dir \in ValuationLookups
    /\ inventory_dir \in ColumnDirs(MaxFiles, MaxRows)
    /\ InitRun

Init ==
    /\ lookup_dir \in PortfolioLookups
    /\ inventory_dir \in InventoryDirs(Headers, MaxFiles, MaxRows)
    /\ InitRun

Next ==
    \/ LookupNoFiles
    \/ LookupReadDoc
    \/ LookupReturn
    \/ InventoryNoFiles
    \/ InventoryReadFile
    \/ InventoryReturn
    \/ UpdatePortfolioEmpty
    \/ UpdatePortfolioMerge

\* update_portfolio(inventory_dir, lookup_dir, output_file)
Spec == Init /\ [][Next]_vars

\* update_portfolio with a lookup directory that loads
SpecValuation == InitValuation /\ [][Next]_vars

\* update_portfolio over inventories of every header of ColumnHeaders
SpecColumns == InitColumns /\ [][Next]_vars

-----------------------------------------------------------------------------
(* generate_summary.py and pipeline.py *)

\* The portfolio file generate_summary reads is the file update_portfolio
\* writes: main() of both modules names "card_portfolio.csv".

\* required_cols of generate_summary
summary_required_cols == <<"card_market_value", "card_id", "card_name">>

\* pd.read_csv raises EmptyDataError on a file without a header line
SummaryReadRaises(file) == file.header = <<>>

\* df.empty
SummaryDfEmpty(file) == file.rows = <<>>

\* missing = [c for c in required_cols if c not in df.columns]
MissingRequired(file) ==
    SelectSeq(summary_required_cols, LAMBDA c : c \notin Range(file.header))

\* to_csv writes a null as the empty field, and read_csv reads these
\* fields back as NaN, which print() shows as nan.
NaTexts == {"", "nan", "NaN", "NA", "<NA>", "N/A", "null", "None"}
ToCsvText(cell) == IF IsNull(cell) THEN "" ELSE cell.t
ReadBackText(cell) == IF ToCsvText(cell) \in NaTexts THEN "nan" ELSE ToCsvText(cell)

\* df["card_market_value"].fillna(0.0).sum(); a value that is a number is
\* read back as written
RECURSIVE SumMarketValue(_)
SumMarketValue(rows) ==
    IF rows = <<>> THEN 0
    ELSE (IF Head(rows).card_market_value = NaNf THEN 0
          ELSE Head(rows).card_market_value) + SumMarketValue(Tail(rows))

\* df["card_market_value"].idxmax(): the first row holding the greatest
\* value (NaN is skipped: NaNf is below every value)
IdxMax(rows) ==
    CHOOSE i \in 1..Len(rows) :
        /\ \A j \in 1..Len(rows) : rows[j].card_market_value <= rows[i].card_market_value
        /\ \A j \in 1..(i - 1) : rows[j].card_market_value < rows[i].card_market_value

\* lines 55-60
SummaryReport(rows) ==
    <<Printed("=== Portfolio Summary ===", <<>>),
      Printed("Total Portfolio Value (sum of card_market_value): $", <<SumMarketValue(rows)>>),
      Printed("--- Most Valuable Card ---", <<>>),
      Printed("Name:", <<ReadBackText(rows[IdxMax(rows)].card_name)>>),
      Printed("ID:", <<ReadBackText(rows[IdxMax(rows)].card_id)>>),
      Printed("Value: $", <<rows[IdxMax(rows)].card_market_value>>)>>

\* sys.exit(1), after a diagnostic
SummaryExit(diagnostic) ==
    /\ stderr' = Append(stderr, diagnostic)
    /\ raised' = "SystemExit(1)"
    /\ pc' = "raised"
    /\ UNCHANGED stdout

\* generate_summary("card_portfolio.csv")
GenerateSummary ==
    /\ pc = "summary"
    /\ IF ~output_file.written
       THEN SummaryExit("[Summary] Error: file not found")
       ELSE IF SummaryReadRaises(output_file)
       THEN SummaryExit("[Summary] Error reading")
       ELSE IF SummaryDfEmpty(output_file)
       THEN /\ stdout' = Append(stdout, Printed("[Summary] is empty. Nothing to report.", <<>>))
            /\ pc' = "summary_returned"
            /\ UNCHANGED <<stderr, raised>>
       ELSE IF MissingRequired(output_file) # <<>>
       THEN SummaryExit("[Summary] Error: missing required columns")
       ELSE /\ stdout' = stdout \o SummaryReport(output_file.rows)
            /\ pc' = "summary_returned"
            /\ UNCHANGED <<stderr, raised>>
    /\ UNCHANGED <<lookup_dir, inventory_dir, path_i, all_lookup_df, lookup_df,
                   frames, inventory_df, output_file>>

\* run_production_pipeline, lines 17-20: the two notices, then
\* update_portfolio.main()
PipelineStart ==
    /\ pc = "pipeline"
    /\ stderr' = stderr \o <<"[Pipeline] Starting production pipeline...",
                              "[Pipeline] Step 1/2: Updating portfolio (ETL)...">>
    /\ pc' = "lookup_loop"
    /\ UNCHANGED <<lookup_dir, inventory_dir, path_i, all_lookup_df, lookup_df,
                   frames, inventory_df, output_file, raised, stdout>>

\* lines 22-23: update_portfolio.main() has returned; the notice, then
\* generate_summary.main()
PipelineStepSummary ==
    /\ pc = "done"
    /\ stderr' = Append(stderr, "[Pipeline] Step 2/2: Generating summary report...")
    /\ pc' = "summary"
    /\ UNCHANGED <<lookup_dir, inventory_dir, path_i, all_lookup_df, lookup_df,
                   frames, inventory_df, output_file, raised, stdout>>

\* line 25: generate_summary.main() has returned
PipelineCompleted ==
    /\ pc = "summary_returned"
    /\ stderr' = Append(stderr, "[Pipeline] Pipeline completed successfully.")
    /\ pc' = "completed"
    /\ UNCHANGED <<lookup_dir, inventory_dir, path_i, all_lookup_df, lookup_df,
                   frames, inventory_df, output_file, raised, stdout>>

InitPipeline ==
    /\ lookup_dir \in PortfolioLookups
    /\ inventory_dir \in InventoryDirs(Headers, MaxFiles, MaxRows)
    /\ pc = "pipeline"
    /\ path_i = 1
    /\ all_lookup_df = <<>>
    /\ lookup_df = <<>>
    /\ frames = <<>>
    /\ inventory_df = EmptyFrame
    /\ output_file = NotWritten
    /\ stderr = <<>>
    /\ raised = "none"
    /\ stdout = <<>>

NextPipeline ==
    \/ PipelineStart
    \/ LookupNoFiles
    \/ LookupReadDoc
    \/ LookupReturn
    \/ InventoryNoFiles
    \/ InventoryReadFile
    \/ InventoryReturn
    \/ UpdatePortfolioEmpty
    \/ UpdatePortfolioMerge
    \/ PipelineStepSummary
    \/ GenerateSummary
    \/ PipelineCompleted

\* run_production_pipeline()
SpecPipeline == InitPipeline /\ [][NextPipeline]_vars

\* A row of a portfolio file that holds card id with the value v
SummaryRow(id, v) ==
    [index |-> "A_3_7", card_id |-> Str(id),
     card_name |-> IF id = "SV1-001" THEN Str("Pikachu") ELSE NA,
     card_number |-> Str("001"), set_id |-> Str("SV1"), set_name |-> Str("Scarlet"),
     quantity |-> [k |-> "int", t |-> "2"],
     card_market_value |-> v, portfolio_line_value |-> 2 * v]

\* The files generate_summary is run on by itself: no file, a file of zero
\* bytes, and tables of at most MaxRows rows under the full header or under
\* one that lacks card_name.
SummaryFiles ==
    {NotWritten, [written |-> TRUE, header |-> <<>>, rows |-> <<>>]}
    \cup UNION {{[written |-> TRUE, header |-> h, rows |-> rows] :
                   h \in {final_cols, <<"card_id", "card_market_value">>},
                   rows \in [1..m -> {SummaryRow(id, v) :
                                        id \in {"SV1-001", "XY-9"}, v \in {0, 5, 7}}]} :
                m \in 0..MaxRows}

InitSummary ==
    /\ output_file \in SummaryFiles
    /\ pc = "summary"
    /\ lookup_dir = <<>>
    /\ inventory_dir = <<>>
    /\ path_i = 1
    /\ all_lookup_df = <<>>
    /\ lookup_df = <<>>
    /\ frames = <<>>
    /\ inventory_df = EmptyFrame
    /\ stderr = <<>>
    /\ raised = "none"
    /\ stdout = <<>>

\* generate_summary.main() on its own
SpecSummary == InitSummary /\ [][GenerateSummary]_vars

-----------------------------------------------------------------------------
(* Properties *)

OkFiles == SelectSeq(inventory_dir, LAMBDA f : f.kind = "ok")
OkDocs == SelectSeq(lookup_dir, LAMBDA d : d.kind = "ok")
OutRows == output_file.rows
HeaderOnly == output_file = [written |-> TRUE, header |-> final_cols, rows |-> <<>>]
Unmatched(row) == Matches(lookup_df, row["card_id"]) = <<>>

\* rows of the files before the k-th one
RowsBefore(fs, k) == SumLen([i \in 1..(k - 1) |-> fs[i].rows])

\* C1: the written table has one row per inventory row, and a row whose
\* card_id has no lookup record has card_market_value 0.0 and set_name
\* "NOT_FOUND".
C1_LeftBiasedMerge ==
    output_file.written =>
        /\ Len(OutRows) = Len(inventory_df.rows)
        /\ \A i \in 1..Len(OutRows) :
              Unmatched(inventory_df.rows[i]) =>
                 /\ OutRows[i].card_market_value = 0
                 /\ OutRows[i].set_name = Str("NOT_FOUND")

\* C2: card_name, card_number and set_id of a written row are the lookup
\* record's when the row has one, and the inventory row's own only when it has
\* none, also when the inventory holds those columns.
C2_LookupTakesPriority ==
    (output_file.written /\ Len(OutRows) = Len(inventory_df.rows)) =>
        \A i \in 1..Len(OutRows) : \A col \in {"card_name", "card_number", "set_id"} :
            IF Unmatched(inventory_df.rows[i])
            THEN col \in inventory_df.cols =>
                    OutRows[i][col] = AstypeStr(inventory_df.rows[i][col])
            ELSE OutRows[i][col] = Matches(lookup_df, inventory_df.rows[i]["card_id"])[1][col]

NoHolofoil(doc) ==
    /\ doc.kind = "ok"
    /\ doc.data # <<>>
    /\ \A i \in 1..Len(doc.data) : doc.data[i].holofoil_market \in {AbsentKey, NaNf}

NormalOrZero(r) == IF r.normal_market \in {AbsentKey, NaNf} THEN 0 ELSE r.normal_market

\* the documents before the d-th one that gave a frame
FramesBefore(d) == Len(SelectSeq(SubSeq(lookup_dir, 1, d - 1), LAMBDA x : x.kind = "ok"))

\* C3: a document whose records have no holofoil market price is loaded, each
\* record with its normal market price, or 0.0 without one; this also when no
\* record of the document has the holofoil or the normal field.
C3_NormalElseZero ==
    \A d \in 1..Len(lookup_dir) :
        NoHolofoil(lookup_dir[d]) =>
            /\ ~(pc = "raised" /\ path_i = d)
            /\ ((pc = "lookup_loop" /\ path_i > d) \/ pc = "inventory_loop") =>
                  /\ Len(all_lookup_df) > FramesBefore(d)
                  /\ \A k \in 1..Len(lookup_dir[d].data) :
                        all_lookup_df[FramesBefore(d) + 1][k].card_market_value =
                            NormalOrZero(lookup_dir[d].data[k])

SourceRows == Flatten(all_lookup_df)

\* C4: the table _load_lookup_data returns has one record for each card_id of
\* the source records, and its card_market_value is the greatest resolved
\* value of the source records of that card_id.
C4_OnePerCardIdMax ==
    pc = "inventory_loop" =>
        /\ \A i, j \in 1..Len(lookup_df) :
              i # j => lookup_df[i].card_id # lookup_df[j].card_id
        /\ {lookup_df[i].card_id : i \in 1..Len(lookup_df)} =
              {AstypeStr(SourceRows[k].card_id) : k \in 1..Len(SourceRows)}
        /\ \A i \in 1..Len(lookup_df) :
              /\ \A k \in 1..Len(SourceRows) :
                    AstypeStr(SourceRows[k].card_id) = lookup_df[i].card_id =>
                       SourceRows[k].card_market_value <= lookup_df[i].card_market_value
              /\ \E k \in 1..Len(SourceRows) :
                    /\ AstypeStr(SourceRows[k].card_id) = lookup_df[i].card_id
                    /\ SourceRows[k].card_market_value = lookup_df[i].card_market_value

\* two documents hold the same card_id with different resolved values, the
\* second one the greater, and the table is returned
C4_Witness ==
    /\ pc = "inventory_loop"
    /\ Len(all_lookup_df) = 2
    /\ \E a \in 1..Len(all_lookup_df[1]), b \in 1..Len(all_lookup_df[2]) :
          /\ all_lookup_df[1][a].card_id = all_lookup_df[2][b].card_id
          /\ all_lookup_df[1][a].card_market_value < all_lookup_df[2][b].card_market_value
    /\ Len(lookup_df) = 1

\* C5: a row of a file without a card_id column, with set_id and card_number,
\* is loaded with card_id = set_id + "-" + card_number, as written in the file.
C5_SynthesizedCardId ==
    pc = "merge" =>
        \A k \in 1..Len(OkFiles) : \A j \in 1..Len(OkFiles[k].rows) :
            ("card_id" \notin OkFiles[k].cols /\ {"set_id", "card_number"} \subseteq OkFiles[k].cols) =>
                /\ RowsBefore(OkFiles, k) + j <= Len(inventory_df.rows)
                /\ inventory_df.rows[RowsBefore(OkFiles, k) + j]["card_id"] =
                      Str(OkFiles[k].rows[j]["set_id"] \o "-" \o OkFiles[k].rows[j]["card_number"])

\* C6: update_portfolio never raises, and when it returns it has written its
\* output file.
C6_NeverFails ==
    /\ pc # "raised"
    /\ pc = "done" => output_file.written

InventoryInputEmpty == \A i \in 1..Len(inventory_dir) : inventory_dir[i].rows = <<>>

\* C7: with no inventory file, or only empty ones, update_portfolio ends by
\* returning, with the header-only table of the nine columns written and a
\* diagnostic emitted.
C7_EmptyInventoryHeaderOnly ==
    (InventoryInputEmpty /\ pc \in {"done", "raised"}) =>
        /\ pc = "done"
        /\ HeaderOnly
        /\ \E n \in 1..Len(stderr) :
              stderr[n] = "[ETL] Error: inventory is empty; writing empty portfolio with headers."

SchemaIncomplete ==
    /\ OkFiles # <<>>
    /\ "card_id" \notin UNION {OkFiles[k].cols : k \in 1..Len(OkFiles)}
    /\ ~({"set_id", "card_number"} \subseteq UNION {OkFiles[k].cols : k \in 1..Len(OkFiles)})

\* C8: without a card_id column and without set_id or card_number, the
\* inventory loader returns an empty table with a diagnostic, and
\* update_portfolio ends by returning with the header-only table written.
C8_SchemaIncompleteHeaderOnly ==
    SchemaIncomplete =>
        /\ pc \in {"merge", "done"} =>
              /\ inventory_df = EmptyFrame
              /\ \E n \in 1..Len(stderr) :
                    stderr[n] = "[inventory] Error: inventory CSVs must contain 'card_id' OR both 'set_id' and 'card_number'."
        /\ pc \in {"done", "raised"} => (pc = "done" /\ HeaderOnly)

Malformed(doc) == doc.kind # "ok"

\* the table of the directory with the malformed documents removed
TableWithoutMalformed ==
    IF OkDocs = <<>> THEN EmptyLookup
    ELSE ConcatSortDedup([i \in 1..Len(OkDocs) |-> DfSubset(OkDocs[i].data)])

\* C9: a malformed document is skipped and the load goes on: no malformed
\* document ends the load, and the table returned is the one of the directory
\* without the malformed documents.
C9_MalformedSkipped ==
    /\ ~(pc = "raised" /\ Malformed(lookup_dir[path_i]))
    /\ pc = "inventory_loop" => lookup_df = TableWithoutMalformed

\* C10: in every written row portfolio_line_value is quantity times
\* card_market_value (a row without a quantity has none either).
C10_LineValue ==
    output_file.written =>
        \A i \in 1..Len(OutRows) :
            IF IsNull(OutRows[i].quantity)
            THEN OutRows[i].portfolio_line_value = NaNf
            ELSE OutRows[i].portfolio_line_value =
                    IntOf(OutRows[i].quantity.t) * OutRows[i].card_market_value

\* no file has a quantity column; one written row has no lookup record and
\* value 0, another the defaulted quantity 1 and the value of its record
C10_Witness ==
    /\ output_file.written
    /\ \A k \in 1..Len(OkFiles) : "quantity" \notin OkFiles[k].cols
    /\ Len(OutRows) = Len(inventory_df.rows)
    /\ \E i, j \in 1..Len(OutRows) :
          /\ Unmatched(inventory_df.rows[i])
          /\ OutRows[i].portfolio_line_value = 0
          /\ ~Unmatched(inventory_df.rows[j])
          /\ OutRows[j].quantity = [k |-> "int", t |-> "1"]
          /\ OutRows[j].card_market_value = 5
          /\ OutRows[j].portfolio_line_value = 5

\* C11: every written table has the header index, card_id, card_name,
\* card_number, set_id, set_name, quantity, card_market_value,
\* portfolio_line_value, in this order, and each of its rows has these nine
\* columns and no other, whatever columns the inventory files had and whether
\* or not the lookup was empty.
C11_FixedColumns ==
    output_file.written =>
        /\ output_file.header =
              <<"index", "card_id", "card_name", "card_number", "set_id", "set_name",
                "quantity", "card_market_value", "portfolio_line_value">>
        /\ \A i \in 1..Len(OutRows) :
              DOMAIN OutRows[i] =
                 {"index", "card_id", "card_name", "card_number", "set_id", "set_name",
                  "quantity", "card_market_value", "portfolio_line_value"}

\* a table with rows is written from two files of different headers, one
\* with a card_name column, no file with a quantity column, the lookup empty,
\* and the merged table has its columns in another order than the header
C11_Witness ==
    /\ output_file.written
    /\ OutRows # <<>>
    /\ lookup_df = <<>>
    /\ Len(frames) = 2
    /\ frames[1].cols # frames[2].cols
    /\ "card_name" \in frames[2].cols
    /\ "quantity" \notin frames[1].cols \cup frames[2].cols
    /\ MergedColumns(inventory_df, frames) # output_file.header
    /\ Len(MergedColumns(inventory_df, frames)) > Len(output_file.header)

NoInventoryLoaded == InventoryInputEmpty \/ SchemaIncomplete

NothingToReport ==
    \E n \in 1..Len(stdout) : stdout[n].text = "[Summary] is empty. Nothing to report."

\* the cases in which generate_summary may exit with status 1
SummaryExitCase ==
    \/ ~output_file.written
    \/ SummaryReadRaises(output_file)
    \/ (~SummaryDfEmpty(output_file) /\ MissingRequired(output_file) # <<>>)

\* C12: in run_production_pipeline the summary step starts only after
\* update_portfolio has returned with the portfolio file written; when the
\* inventory load fails or is empty the run ends completed, with the
\* header-only file written and "Nothing to report" printed, and not by an
\* exit; and generate_summary exits with status 1 only when the file is
\* missing, unreadable, or has rows and lacks a required column.
C12_PipelineEmptyReport ==
    /\ pc \in {"summary", "summary_returned", "completed"} =>
          (output_file.written /\ raised = "none")
    /\ (NoInventoryLoaded /\ pc \in {"completed", "raised"}) =>
          /\ pc = "completed"
          /\ HeaderOnly
          /\ NothingToReport
    /\ raised = "SystemExit(1)" => SummaryExitCase

====
